---- MODULE Spec2Model ----
(***************************************************************************)
(* Evacuation Route Finder (finaledit.py): the graph held in a networkx    *)
(* Graph, the two module-level exclusion sets, the route engine find_path, *)
(* the editor loop edit() and the select/view loop main().                 *)
(*                                                                         *)
(* A node key is the pixel position <<x, y>> the node was created at.      *)
(* Python's None is the empty tuple: every key is a non-empty tuple, so    *)
(* "if not node" in the source is "node = None" here.                      *)
(***************************************************************************)
EXTENDS Integers, Sequences, FiniteSets, TLC

\* ------------------------------------------------------------------ bounds
\* The editor creates regular nodes while its counter is at most MaxCount.
\* At most MaxLoad obstacles, blocked edges and seconds of delay are in force
\* at a time: the modelled user lifts one before adding another.
MaxCount == 2
MaxLoad == 2

\* A function that is called on its own is called at most MaxCalls times.
MaxCalls == 3

\* Radius of a node in pixels: get_node finds a node within it.
NODE_SIZE == 20

None == <<>>

\* The positions the modelled user clicks at in the drawing area: regular
\* nodes are created at NodeSpots (left click), exit nodes at ExitSpots
\* (right click).  They are more than NODE_SIZE apart and no three are on a
\* line, so a click on one hits at most the node created there, and every
\* segment between two of them has a point that is within 5 pixels of no
\* other segment.  In the default graph they are A1, A2 and B1.
NodeSpots == { <<100, 100>>, <<300, 100>> }
ExitSpots == { <<100, 250>> }
Spots == NodeSpots \cup ExitSpots

\* The digits entered in the weight popup (it accepts 1 to 9).
Weights == {1, 3}

\* get_weight() returned None (ESC): no digit, and false in "if (w := ...)".
Cancelled == 0

\* ------------------------------------------------------------- the graph
\* nx.Graph(): nodes in insertion order, the node attributes label and
\* delay, and one weight per unordered pair of keys.
EmptyGraph ==
    [nodes |-> <<>>, label |-> <<>>, delay |-> <<>>, weight |-> <<>>]

Range(s) == { s[i] : i \in DOMAIN s }

NodeSet(g) == Range(g.nodes)

EdgeSet(g) == DOMAIN g.weight

\* graph.add_node(key, pos=key, label=lab, delay=0): a new key is appended,
\* a known key keeps its place and its edges and gets the attributes anew.
add_node(g, key, lab) ==
    [ nodes  |-> IF key \in NodeSet(g) THEN g.nodes ELSE Append(g.nodes, key),
      label  |-> [ n \in NodeSet(g) \cup {key} |->
                       IF n = key THEN lab ELSE g.label[n] ],
      delay  |-> [ n \in NodeSet(g) \cup {key} |->
                       IF n = key THEN 0 ELSE g.delay[n] ],
      weight |-> g.weight ]

\* An add_edge that leaves an edge that exists as it is.
add_edge_keeping_weight(g, u, v, w) ==
    [ g EXCEPT !.weight = [ e \in EdgeSet(g) \cup {{u, v}} |->
                               IF e \in EdgeSet(g) THEN g.weight[e] ELSE w ] ]

\* graph.add_edge(u, v, weight=w): one edge per unordered pair, the weight
\* of an existing edge is overwritten.
add_edge(g, u, v, w) ==
    [ g EXCEPT !.weight = [ e \in EdgeSet(g) \cup {{u, v}} |->
                               IF e = {u, v} THEN w ELSE g.weight[e] ] ]

\* remove_node that forgets the incident edges.
remove_node_keeping_edges(g, k) ==
    [ nodes  |-> SelectSeq(g.nodes, LAMBDA n : n # k),
      label  |-> [ n \in NodeSet(g) \ {k} |-> g.label[n] ],
      delay  |-> [ n \in NodeSet(g) \ {k} |-> g.delay[n] ],
      weight |-> g.weight ]

\* graph.remove_node(k): the node, its attributes and its incident edges.
remove_node(g, k) ==
    [ nodes  |-> SelectSeq(g.nodes, LAMBDA n : n # k),
      label  |-> [ n \in NodeSet(g) \ {k} |-> g.label[n] ],
      delay  |-> [ n \in NodeSet(g) \ {k} |-> g.delay[n] ],
      weight |-> [ e \in { d \in EdgeSet(g) : k \notin d } |-> g.weight[e] ] ]

\* graph.neighbors(n)
neighbors(g, n) == { m \in NodeSet(g) : {n, m} \in EdgeSet(g) }

\* 'E' in label: a label is <<letter, number>>, the text f"{letter}{number}".
IsExit(g, n) == g.label[n][1] = "E"

\* Position of key n in the insertion order of the nodes.
Index(g, n) == CHOOSE i \in DOMAIN g.nodes : g.nodes[i] = n

\* graph.edges yields each edge once, from the endpoint that comes first in
\* the node order to the other one.
Oriented(g, e) ==
    LET u == CHOOSE a \in e : \A b \in e : Index(g, a) <= Index(g, b)
        v == CHOOSE b \in e : b # u
    IN  <<u, v>>

\* -------------------------------------------------------------- find_path
\* Order of Python tuples of two integers.
KeyLess(a, b) == a[1] < b[1] \/ (a[1] = b[1] /\ a[2] < b[2])

\* Order of the heap entries (cost, node).
EntryLess(p, q) == p[1] < q[1] \/ (p[1] = q[1] /\ KeyLess(p[2], q[2]))

\* A pop that takes the last entry of the order instead of the first.
HeapMin_taking_last(queue) ==
    CHOOSE p \in queue : \A q \in queue \ {p} : EntryLess(q, p)

\* heapq.heappop: the least entry.  No entry is pushed twice (a node is
\* pushed again only with a strictly smaller cost), so the heap is a set.
HeapMin(queue) == CHOOSE p \in queue : \A q \in queue \ {p} : EntryLess(p, q)

\* A pop that leaves the entry in the queue.
heappop_peeking(queue) == queue

\* The queue after heapq.heappop.
heappop(queue) == queue \ { HeapMin(queue) }

\* A test that looks up the blocked edge in one orientation only.
Skipped_one_way(obst, blocked, current, next_node) ==
    \/ next_node \in obst
    \/ <<current, next_node>> \in blocked

\* A test that forgets the obstacles.
Skipped_no_obstacle(obst, blocked, current, next_node) ==
    \/ <<current, next_node>> \in blocked
    \/ <<next_node, current>> \in blocked

\* A test that also stops at an obstacle the search is leaving, so that an
\* obstacle start leads nowhere.
Skipped_leaving_obstacle(obst, blocked, current, next_node) ==
    \/ current \in obst
    \/ next_node \in obst
    \/ <<current, next_node>> \in blocked
    \/ <<next_node, current>> \in blocked

\* Line 36: next_node is skipped.
Skipped(obst, blocked, current, next_node) ==
    \/ next_node \in obst
    \/ <<current, next_node>> \in blocked
    \/ <<next_node, current>> \in blocked

\* A cost that leaves out the delay of the node arrived at.
StepCost_no_delay(g, costs, current, next_node) ==
    costs[current] + g.weight[{current, next_node}]

\* Line 39: cost of reaching next_node through current.
StepCost(g, costs, current, next_node) ==
    costs[current] + g.weight[{current, next_node}] + g.delay[next_node]

\* Lines 34-43: the for loop over the neighbours of current.  Every
\* neighbour occurs once and the body writes only that neighbour's entries,
\* so the iteration order does not show in the result.
Relax(g, obst, blocked, st, current) ==
    LET better == { n \in neighbors(g, current) :
                      /\ ~Skipped(obst, blocked, current, n)
                      /\ \/ n \notin DOMAIN st.costs
                         \/ StepCost(g, st.costs, current, n) < st.costs[n] }
    IN  [ queue   |-> st.queue \cup
                        { <<StepCost(g, st.costs, current, n), n>> : n \in better },
          costs   |-> [ n \in DOMAIN st.costs \cup better |->
                          IF n \in better
                          THEN StepCost(g, st.costs, current, n)
                          ELSE st.costs[n] ],
          visited |-> [ n \in DOMAIN st.visited \cup better |->
                          IF n \in better THEN current ELSE st.visited[n] ] ]

\* Lines 29-30.
SearchInit(start) ==
    [ queue |-> { <<0, start>> }, costs |-> (start :> 0), visited |-> <<>> ]

\* Lines 31-43: the while loop, to its end.
RECURSIVE Search(_, _, _, _, _)
Search(g, obst, blocked, st, end) ==
    IF st.queue = {} THEN st
    ELSE LET top     == HeapMin(st.queue)
             current == top[2]
             popped  == [ st EXCEPT !.queue = heappop(st.queue) ]
         IN  IF current = end THEN popped
             ELSE Search(g, obst, blocked,
                         Relax(g, obst, blocked, popped, current), end)

\* visited.get(node)
Get(visited, node) == IF node \in DOMAIN visited THEN visited[node] ELSE None

\* A path[::-1] that leaves the order as it is.
Reverse_forgotten(s) == s

\* path[::-1]
Reverse(s) == [ i \in 1..Len(s) |-> s[Len(s) + 1 - i] ]

\* Lines 45-51: the walk back from end; the result is (path, cost).
RECURSIVE Trace(_, _, _, _, _)
Trace(st, start, end, node, path) ==
    IF node = start
    THEN << <<start>> \o Reverse(path),
            IF end \in DOMAIN st.costs THEN st.costs[end] ELSE 0 >>
    ELSE LET prev == Get(st.visited, node)
         IN  IF prev = None THEN << <<>>, 0 >>
             ELSE Trace(st, start, end, prev, Append(path, node))

\* A find_path that takes an end without predecessor for unreached, also
\* when end is the start.
find_path_in_no_start_case(g, obst, blocked, start, end) ==
    LET st == Search(g, obst, blocked, SearchInit(start), end)
    IN  IF Get(st.visited, end) = None THEN << <<>>, 0 >>
        ELSE Trace(st, start, end, end, <<>>)

\* find_path with the two module-level sets as parameters.
find_path_in(g, obst, blocked, start, end) ==
    Trace(Search(g, obst, blocked, SearchInit(start), end),
          start, end, end, <<>>)

\* No call of find_path is being followed.
NoCall == [ pc |-> "idle" ]

\* ------------------------------------------------------------------ state
VARIABLES
    mode,           \* "select", "edit" (inside edit()), "view", "quit", "error"
    graph,          \* main's graph, edit's graph
    start,          \* main's start node, None until view mode is set up
    exits,          \* the exit nodes, in node order
    buttons,        \* the keys of the start buttons, in node order
    paths,          \* one path per exit
    times,          \* one cost per exit
    obstacles,      \* module-level set of obstacle keys
    blocked_edges,  \* module-level set of blocked (u, v) pairs
    count,          \* edit's node counter
    selected,       \* edit's selected node
    drawing,        \* edit's pending edge (origin, None)
    call            \* find_path's locals while a call is followed step by
                    \* step, NoCall otherwise

vars == << mode, graph, start, exits, buttons, paths, times,
           obstacles, blocked_edges, count, selected, drawing, call >>

viewVars == << start, exits, buttons, paths, times >>
editVars == << count, selected, drawing >>

\* find_path(graph, start, end), which reads the two module-level sets.
find_path(g, s, e) == find_path_in(g, obstacles, blocked_edges, s, e)

\* A loop that puts each result in front of the earlier ones.
Routes_prepending(g, obst, blocked, s, ex) ==
    LET found == [ i \in 1..Len(ex) |->
                     find_path_in(g, obst, blocked, s, ex[Len(ex) + 1 - i]) ]
    IN  << [ i \in 1..Len(ex) |-> found[i][1] ],
           [ i \in 1..Len(ex) |-> found[i][2] ] >>

\* The loop "for exit in exits: path, time = find_path(...)", which fills
\* paths and times; the result is <<paths, times>>.
Routes(g, obst, blocked, s, ex) ==
    LET found == [ i \in 1..Len(ex) |-> find_path_in(g, obst, blocked, s, ex[i]) ]
    IN  << [ i \in 1..Len(ex) |-> found[i][1] ],
           [ i \in 1..Len(ex) |-> found[i][2] ] >>

\* ------------------------------------------------------- the default graph
DefaultNodes ==
    << <<100,100>>, <<300,100>>, <<500,100>>, <<700,100>>, <<900,100>>,
       <<100,250>>, <<300,250>>, <<500,250>>, <<700,250>>, <<900,250>>,
       <<100,400>>, <<300,400>>, <<500,400>>, <<700,400>>, <<900,400>>,
       <<100,600>>, <<500,600>>, <<900,600>> >>

DefaultLabels ==
    << <<"A",1>>, <<"A",2>>, <<"A",3>>, <<"A",4>>, <<"A",5>>,
       <<"B",1>>, <<"H",1>>, <<"H",2>>, <<"H",3>>, <<"B",5>>,
       <<"C",1>>, <<"H",4>>, <<"H",5>>, <<"H",6>>, <<"C",5>>,
       <<"E",1>>, <<"E",2>>, <<"E",3>> >>

DefaultEdges ==
    { << <<x, y>>, <<x + 200, y>>, 2 >> :
          x \in {100, 300, 500, 700}, y \in {100, 250, 400} }
    \cup { << <<x, y>>, <<x, y + 150>>, 3 >> :
          x \in {100, 300, 500, 700, 900}, y \in {100, 250} }
    \cup { << <<x, 400>>, <<x, 600>>, 4 >> : x \in {100, 500, 900} }
    \cup { << <<300,250>>, <<500,400>>, 4 >>, << <<700,250>>, <<500,400>>, 4 >>,
           << <<300,400>>, <<500,600>>, 4 >>, << <<700,400>>, <<500,600>>, 4 >> }

make_default_graph ==
    [ nodes  |-> DefaultNodes,
      label  |-> [ n \in Range(DefaultNodes) |->
                     DefaultLabels[CHOOSE i \in 1..18 : DefaultNodes[i] = n] ],
      delay  |-> [ n \in Range(DefaultNodes) |-> 0 ],
      weight |-> [ e \in { {d[1], d[2]} : d \in DefaultEdges } |->
                     (CHOOSE d \in DefaultEdges : {d[1], d[2]} = e)[3] ] ]

\* Lines 256-257 and 338-339.
toggle_obstacle(obst, node) ==
    IF node \in obst THEN obst \ {node} ELSE obst \cup {node}

\* ----------------------------------------------------------------- inputs
RECURSIVE SumOver(_, _)
SumOver(f, S) ==
    IF S = {} THEN 0
    ELSE LET x == CHOOSE y \in S : TRUE IN f[x] + SumOver(f, S \ {x})

\* What the bound MaxLoad counts.
Load == Cardinality(obstacles) + Cardinality(blocked_edges)
            + SumOver(graph.delay, DOMAIN graph.delay)

\* A get_node that finds no node, so that every click is on free ground.
get_node_finding_none(g, pos) == None

\* get_node(graph, pos) for a click at a spot: the node created there.
get_node(g, pos) == IF pos \in NodeSet(g) THEN pos ELSE None

\* get_edge(graph, pos) for a click on the segment e alone: the edge as
\* graph.edges yields it.
get_edge(g, e) == IF e \in EdgeSet(g) THEN Oriented(g, e) ELSE None

Init ==
    /\ mode = "select"
    /\ graph = None
    /\ start = None
    /\ exits = <<>>
    /\ buttons = <<>>
    /\ paths = <<>>
    /\ times = <<>>
    /\ obstacles = {}
    /\ blocked_edges = {}
    /\ count = 0
    /\ selected = None
    /\ drawing = None
    /\ call = NoCall

\* The program has ended in mode m, and its state is gone.
Ended(m) ==
    /\ mode' = m
    /\ graph' = None
    /\ start' = None
    /\ exits' = <<>>
    /\ buttons' = <<>>
    /\ paths' = <<>>
    /\ times' = <<>>
    /\ obstacles' = {}
    /\ blocked_edges' = {}
    /\ count' = 0
    /\ selected' = None
    /\ drawing' = None
    /\ call' = NoCall

\* ------------------------------------------------------------ select mode
\* A select handler that stays in charge during view mode.
InSelect_or_view == mode \in {"select", "view"}

\* The select handler also runs for the rest of the event batch in which a
\* graph was chosen, before view mode is set up.
InSelect == mode = "select" \/ (mode = "view" /\ start = None)

\* QUIT or ESC: pygame.quit() and return.
SelectQuit ==
    /\ InSelect
    /\ Ended("quit")

SelectDefault ==
    /\ InSelect
    /\ graph' = make_default_graph
    /\ mode' = "view"
    /\ UNCHANGED << viewVars, obstacles, blocked_edges, editVars, call >>

\* edit(nx.Graph()) is entered; main resumes when it returns.
SelectCustom ==
    /\ InSelect
    /\ graph' = EmptyGraph
    /\ mode' = "edit"
    /\ count' = 1
    /\ selected' = None
    /\ drawing' = None
    /\ UNCHANGED << viewVars, obstacles, blocked_edges, call >>

\* -------------------------------------------------------------- edit mode
\* Left click where no node is: a new node N<count>.
EditAddNode(pos) ==
    /\ mode = "edit"
    /\ count <= MaxCount
    /\ get_node(graph, pos) = None
    /\ graph' = add_node(graph, pos, <<"N", count>>)
    /\ count' = count + 1
    /\ UNCHANGED << mode, viewVars, obstacles, blocked_edges, selected, drawing, call >>

\* Left click on a node while no edge is pending.
EditStartEdge(pos) ==
    /\ mode = "edit"
    /\ get_node(graph, pos) # None
    /\ drawing = None
    /\ call = NoCall
    /\ selected' = get_node(graph, pos)
    /\ drawing' = << get_node(graph, pos), None >>
    /\ UNCHANGED << mode, graph, viewVars, obstacles, blocked_edges, count, call >>

\* Left click on a node while an edge is pending; w is get_weight()'s
\* answer, had the popup been shown.
EditCompleteEdge(pos, w) ==
    /\ mode = "edit"
    /\ get_node(graph, pos) # None
    /\ drawing # None
    /\ graph' = IF get_node(graph, pos) # drawing[1] /\ w # Cancelled
                THEN add_edge(graph, drawing[1], get_node(graph, pos), w)
                ELSE graph
    /\ drawing' = None
    /\ selected' = None
    /\ UNCHANGED << mode, viewVars, obstacles, blocked_edges, count, call >>

\* Right click where no node is: a new exit node.
EditAddExit(pos) ==
    /\ mode = "edit"
    /\ get_node(graph, pos) = None
    /\ LET num == Cardinality({ n \in NodeSet(graph) : IsExit(graph, n) }) + 1
       IN  graph' = add_node(graph, pos, <<"E", num>>)
    /\ UNCHANGED << mode, viewVars, obstacles, blocked_edges, editVars, call >>

\* A delete that leaves the pending edge and the selection in place.
EditDelete_keeping_drawing(pos) ==
    /\ mode = "edit"
    /\ get_node(graph, pos) # None
    /\ graph' = remove_node(graph, get_node(graph, pos))
    /\ UNCHANGED << mode, viewVars, obstacles, blocked_edges, editVars, call >>

\* Key D with the mouse over a node.
EditDelete(pos) ==
    /\ mode = "edit"
    /\ get_node(graph, pos) # None
    /\ graph' = remove_node(graph, get_node(graph, pos))
    /\ selected' = None
    /\ drawing' = None
    /\ UNCHANGED << mode, viewVars, obstacles, blocked_edges, count, call >>

\* Key E.
EditCancel ==
    /\ mode = "edit"
    /\ selected' = None
    /\ drawing' = None
    /\ UNCHANGED << mode, graph, viewVars, obstacles, blocked_edges, count, call >>

\* Key B with the mouse over a node.
EditToggleObstacle(pos) ==
    /\ mode = "edit"
    /\ get_node(graph, pos) # None
    /\ get_node(graph, pos) \in obstacles \/ Load < MaxLoad
    /\ obstacles' = toggle_obstacle(obstacles, get_node(graph, pos))
    /\ UNCHANGED << mode, graph, viewVars, blocked_edges, editVars, call >>

\* QUIT or ESC: edit returns the graph and main switches to view mode; the
\* locals of edit are gone.
EditExit ==
    /\ mode = "edit"
    /\ mode' = "view"
    /\ count' = 0
    /\ selected' = None
    /\ drawing' = None
    /\ UNCHANGED << graph, viewVars, obstacles, blocked_edges, call >>

\* -------------------------------------------------------------- view mode
\* Lines 298-308: "if not start".  next(iter(graph.nodes())) raises
\* StopIteration when the graph has no node, which ends the program.
ViewInit ==
    /\ mode = "view"
    /\ start = None
    /\ IF Len(graph.nodes) = 0
       THEN Ended("error")
       ELSE /\ mode' = mode
            /\ start' = graph.nodes[1]
            /\ exits' = SelectSeq(graph.nodes, LAMBDA n : IsExit(graph, n))
            /\ buttons' = SelectSeq(graph.nodes, LAMBDA n : ~IsExit(graph, n))
            /\ \E r \in { Routes(graph, obstacles, blocked_edges, start', exits') } :
                  paths' = r[1] /\ times' = r[2]
            /\ UNCHANGED << graph, obstacles, blocked_edges, editVars, call >>

InView == mode = "view" /\ start # None

\* QUIT or ESC: pygame.quit() and return.
ViewQuit ==
    /\ InView
    /\ Ended("quit")

\* Lines 320-332: a click on the start button of node b.  No node and no
\* edge is under a button, so lines 335-361 do nothing more.
ViewSelectStart(b) ==
    /\ InView
    /\ b \in Range(buttons)
    /\ start' = b
    /\ \E r \in { Routes(graph, obstacles, blocked_edges, b, exits) } : paths' = r[1] /\ times' = r[2]
    /\ UNCHANGED << mode, graph, exits, buttons, obstacles, blocked_edges, editVars, call >>

\* Lines 340-343: the delay of node after a wheel step.
increase_delay(g, node) == [ g EXCEPT !.delay[node] = @ + 1 ]

\* A wheel step down without the floor at zero.
decrease_delay_no_floor(g, node) == [ g EXCEPT !.delay[node] = @ - 1 ]

decrease_delay(g, node) ==
    [ g EXCEPT !.delay[node] = IF @ - 1 > 0 THEN @ - 1 ELSE 0 ]

\* Line 348: the edge is blocked, in one orientation or the other.
is_blocked(blocked, edge) ==
    edge \in blocked \/ <<edge[2], edge[1]>> \in blocked

\* A toggle that looks at the given orientation only.
toggle_blocked_edge_one_way(blocked, edge) ==
    IF edge \in blocked THEN blocked \ {edge} ELSE blocked \cup {edge}

\* A toggle that stores a blocked edge in both orientations.
toggle_blocked_edge_both(blocked, edge) ==
    IF is_blocked(blocked, edge)
    THEN (blocked \ {edge}) \ { <<edge[2], edge[1]>> }
    ELSE blocked \cup { edge, <<edge[2], edge[1]>> }

\* Lines 348-352.
toggle_blocked_edge(blocked, edge) ==
    IF is_blocked(blocked, edge)
    THEN (blocked \ {edge}) \ { <<edge[2], edge[1]>> }
    ELSE blocked \cup {edge}

\* A handler that leaves the routes as they are.
Recompute_skipped(g, obst, blocked) == << paths, times >>

\* Lines 355-361: "if node or edge", the routes are computed again.
Recompute(g, obst, blocked) == Routes(g, obst, blocked, start, exits)

\* A left click that takes a new obstacle out of the graph.
ViewToggleObstacle_removing_node(pos) ==
    /\ InView
    /\ get_node(graph, pos) # None
    /\ get_node(graph, pos) \in obstacles \/ Load < MaxLoad
    /\ obstacles' = toggle_obstacle(obstacles, get_node(graph, pos))
    /\ graph' = IF get_node(graph, pos) \in obstacles THEN graph
                ELSE remove_node(graph, get_node(graph, pos))
    /\ \E r \in { Recompute(graph, obstacles', blocked_edges) } : paths' = r[1] /\ times' = r[2]
    /\ UNCHANGED << mode, start, exits, buttons, blocked_edges, editVars, call >>

\* Left click on a node.
ViewToggleObstacle(pos) ==
    /\ InView
    /\ get_node(graph, pos) # None
    /\ get_node(graph, pos) \in obstacles \/ Load < MaxLoad
    /\ obstacles' = toggle_obstacle(obstacles, get_node(graph, pos))
    /\ \E r \in { Recompute(graph, obstacles', blocked_edges) } : paths' = r[1] /\ times' = r[2]
    /\ UNCHANGED << mode, graph, start, exits, buttons, blocked_edges, editVars, call >>

\* Wheel up over a node.
ViewIncreaseDelay(pos) ==
    /\ InView
    /\ get_node(graph, pos) # None
    /\ Load < MaxLoad
    /\ graph' = increase_delay(graph, get_node(graph, pos))
    /\ \E r \in { Recompute(graph', obstacles, blocked_edges) } : paths' = r[1] /\ times' = r[2]
    /\ UNCHANGED << mode, start, exits, buttons, obstacles, blocked_edges, editVars, call >>

\* Wheel down over a node.
ViewDecreaseDelay(pos) ==
    /\ InView
    /\ get_node(graph, pos) # None
    /\ graph' = decrease_delay(graph, get_node(graph, pos))
    /\ \E r \in { Recompute(graph', obstacles, blocked_edges) } : paths' = r[1] /\ times' = r[2]
    /\ UNCHANGED << mode, start, exits, buttons, obstacles, blocked_edges, editVars, call >>

\* Left or right click on an edge, away from every node.
ViewToggleBlocked(e) ==
    /\ InView
    /\ get_edge(graph, e) # None
    /\ is_blocked(blocked_edges, get_edge(graph, e)) \/ Load < MaxLoad
    /\ blocked_edges' = toggle_blocked_edge(blocked_edges, get_edge(graph, e))
    /\ \E r \in { Recompute(graph, obstacles, blocked_edges') } : paths' = r[1] /\ times' = r[2]
    /\ UNCHANGED << mode, graph, start, exits, buttons, obstacles, editVars, call >>

SpotPairs == { e \in SUBSET Spots : Cardinality(e) = 2 }

Next ==
    \/ SelectQuit
    \/ SelectDefault
    \/ SelectCustom
    \/ \E pos \in NodeSpots : EditAddNode(pos)
    \/ \E pos \in Spots : EditStartEdge(pos)
    \/ \E pos \in Spots, w \in Weights \cup {Cancelled} : EditCompleteEdge(pos, w)
    \/ \E pos \in ExitSpots : EditAddExit(pos)
    \/ \E pos \in Spots : EditDelete(pos)
    \/ EditCancel
    \/ \E pos \in Spots : EditToggleObstacle(pos)
    \/ EditExit
    \/ ViewInit
    \/ ViewQuit
    \/ \E b \in Spots : ViewSelectStart(b)
    \/ \E pos \in Spots : ViewToggleObstacle(pos)
    \/ \E pos \in Spots : ViewIncreaseDelay(pos)
    \/ \E pos \in Spots : ViewDecreaseDelay(pos)
    \/ \E e \in SpotPairs : ViewToggleBlocked(e)

Spec == Init /\ [][Next]_vars

\* ------------------------------------------------- find_path, called alone
\* The route engine on its own: the initial states are graphs the editor can
\* build on four positions, with delays, obstacles and blocked edges as view
\* mode can set them, and one step is one call find_path(graph, s, e) whose
\* result is kept in paths and times (exits holds e).
PathNodes == << <<100, 100>>, <<300, 100>>, <<100, 250>>, <<300, 250>> >>

PathPairs == { e \in SUBSET Range(PathNodes) : Cardinality(e) = 2 }

\* Weights entered for the edges, and the delay a node may have got.
PathWeights == {1, 3}
PathDelays == {0, 2}

\* The graph with the nodes PathNodes, the edges present, their weights w
\* and the delays d.
PathGraph(present, w, d) ==
    [ nodes  |-> PathNodes,
      label  |-> [ n \in Range(PathNodes) |->
                     << "N", CHOOSE i \in 1..Len(PathNodes) : PathNodes[i] = n >> ],
      delay  |-> d,
      weight |-> [ e \in present |-> w[e] ] ]

PathInit ==
    /\ mode = "call"
    /\ \E present \in SUBSET PathPairs :
       \E w \in [ present -> PathWeights ] :
       \E d \in [ Range(PathNodes) -> PathDelays ] :
          /\ Cardinality({ n \in Range(PathNodes) : d[n] # 0 }) <= 1
          /\ graph = PathGraph(present, w, d)
    /\ obstacles \in { o \in SUBSET Range(PathNodes) : Cardinality(o) <= 1 }
    /\ blocked_edges \in
          { b \in SUBSET { Oriented(graph, e) : e \in EdgeSet(graph) } :
              Cardinality(b) + Cardinality(obstacles) <= 1 }
    /\ start = None
    /\ exits = <<>>
    /\ buttons = <<>>
    /\ paths = <<>>
    /\ times = <<>>
    /\ count = 0
    /\ selected = None
    /\ drawing = None
    /\ call = NoCall

\* path, time = find_path(graph, s, e)
CallFindPath(s, e) ==
    /\ mode = "call"
    /\ start = None
    /\ start' = s
    /\ exits' = << e >>
    /\ \E r \in { find_path(graph, s, e) } :
          paths' = << r[1] >> /\ times' = << r[2] >>
    /\ UNCHANGED << mode, graph, buttons, obstacles, blocked_edges, editVars, call >>

PathNext == \E s \in Range(PathNodes), e \in Range(PathNodes) : CallFindPath(s, e)

PathSpec == PathInit /\ [][PathNext]_vars

\* ------------------------------------------- the blocked-edge toggle, alone
\* Lines 348-352 applied twice to the same edge, each time in either
\* orientation of the pair.  The initial states hold the blocked sets view
\* mode produces on the complete graph over PathNodes.
Orientations(e) == { p \in e \X e : p[1] # p[2] }

ToggleInit ==
    /\ mode = "toggle"
    /\ graph = PathGraph(PathPairs, [ e \in PathPairs |-> 1 ],
                         [ n \in Range(PathNodes) |-> 0 ])
    /\ obstacles \in { o \in SUBSET Range(PathNodes) : Cardinality(o) <= 1 }
    /\ blocked_edges \in SUBSET { Oriented(graph, e) : e \in EdgeSet(graph) }
    /\ start = None
    /\ exits = <<>>
    /\ buttons = <<>>
    /\ paths = <<>>
    /\ times = <<>>
    /\ count = 0
    /\ selected = None
    /\ drawing = None
    /\ call = NoCall

ToggleTwice(first, second) ==
    /\ mode = "toggle"
    /\ blocked_edges' =
          toggle_blocked_edge(toggle_blocked_edge(blocked_edges, first), second)
    /\ UNCHANGED << mode, graph, viewVars, obstacles, editVars, call >>

ToggleNext ==
    \E e \in PathPairs : \E first \in Orientations(e), second \in Orientations(e) :
        ToggleTwice(first, second)

ToggleSpec == ToggleInit /\ [][ToggleNext]_vars

\* ---------------------------------------------------------- add_edge, alone
\* Line 240 on its own: on the four nodes of PathNodes, without edges at
\* first, graph.add_edge(u, v, weight=w) is called for two distinct nodes in
\* either order and with either weight.  count counts the calls; the
\* arguments of the last call are kept in start (u), exits (v) and times (w).
EdgeInit ==
    /\ mode = "add_edge"
    /\ graph = PathGraph({}, <<>>, [ n \in Range(PathNodes) |-> 0 ])
    /\ obstacles = {}
    /\ blocked_edges = {}
    /\ start = None
    /\ exits = <<>>
    /\ buttons = <<>>
    /\ paths = <<>>
    /\ times = <<>>
    /\ count = 0
    /\ selected = None
    /\ drawing = None
    /\ call = NoCall

AddEdgeCall(u, v, w) ==
    /\ mode = "add_edge"
    /\ count < MaxCalls
    /\ u # v
    /\ graph' = add_edge(graph, u, v, w)
    /\ count' = count + 1
    /\ start' = u
    /\ exits' = << v >>
    /\ times' = << w >>
    /\ UNCHANGED << mode, buttons, paths, obstacles, blocked_edges, selected, drawing, call >>

EdgeNext ==
    \E u \in Range(PathNodes), v \in Range(PathNodes), w \in PathWeights :
        AddEdgeCall(u, v, w)

EdgeSpec == EdgeInit /\ [][EdgeNext]_vars

\* ------------------------------------------------- find_path, step by step
\* The same call with its locals in view: call.search holds queue, costs and
\* visited, call.node and call.path the locals of the walk back, and call.pc
\* the place: "while" (line 31), "trace" (line 47), "done" (returned).  The
\* caller's "path, time = find_path(graph, s, e)" puts the result in paths
\* and times, with s in start and e in exits.
\* The initial states: every graph on the four nodes with weights 1 or 3,
\* and at most one of a delayed node, an obstacle and a blocked edge.
StepInit ==
    /\ mode = "run"
    /\ \E present \in SUBSET PathPairs :
       \E w \in [ present -> PathWeights ] :
       \E d \in [ Range(PathNodes) -> PathDelays ] :
          /\ Cardinality({ n \in Range(PathNodes) : d[n] # 0 }) <= 1
          /\ graph = PathGraph(present, w, d)
    /\ obstacles \in { o \in SUBSET Range(PathNodes) : Cardinality(o) <= 1 }
    /\ blocked_edges \in
          { b \in SUBSET { Oriented(graph, e) : e \in EdgeSet(graph) } :
              Cardinality(b) <= 1 }
    /\ Cardinality(blocked_edges) + Cardinality(obstacles)
          + Cardinality({ n \in Range(PathNodes) : graph.delay[n] # 0 }) <= 1
    /\ start = None
    /\ exits = <<>>
    /\ buttons = <<>>
    /\ paths = <<>>
    /\ times = <<>>
    /\ count = 0
    /\ selected = None
    /\ drawing = None
    /\ call = NoCall

\* A call that starts from the costs the call before left behind.
Call_keeping_costs(s, e) ==
    /\ mode \in {"run", "rerun"}
    /\ call.pc = "idle" \/ (mode = "rerun" /\ call.pc = "done")
    /\ call' = [ pc     |-> "while",
                 start  |-> s,
                 end    |-> e,
                 search |-> [ SearchInit(s) EXCEPT !.costs =
                                IF call.pc = "done"
                                THEN (s :> 0) @@ call.search.costs ELSE @ ],
                 node   |-> None,
                 path   |-> <<>> ]
    /\ UNCHANGED << mode, graph, viewVars, obstacles, blocked_edges, editVars >>

\* Lines 29-30: find_path(graph, s, e) is entered.  In mode "rerun" the
\* caller calls again after every return.
Call(s, e) ==
    /\ mode \in {"run", "rerun"}
    /\ call.pc = "idle" \/ (mode = "rerun" /\ call.pc = "done")
    /\ call' = [ pc     |-> "while",
                 start  |-> s,
                 end    |-> e,
                 search |-> SearchInit(s),
                 node   |-> None,
                 path   |-> <<>> ]
    /\ UNCHANGED << mode, graph, viewVars, obstacles, blocked_edges, editVars >>

\* Lines 31-43: one turn of the while loop; lines 45-46 after the break.
Pop ==
    /\ call.pc = "while"
    /\ call.search.queue # {}
    /\ LET current == HeapMin(call.search.queue)[2]
           popped  == [ call.search EXCEPT !.queue = heappop(@) ]
       IN  call' = IF current = call.end
                   THEN [ call EXCEPT !.pc = "trace", !.search = popped,
                                      !.node = call.end, !.path = <<>> ]
                   ELSE [ call EXCEPT !.search =
                            Relax(graph, obstacles, blocked_edges, popped, current) ]
    /\ UNCHANGED << mode, graph, viewVars, obstacles, blocked_edges, editVars >>

\* Line 31 with an empty queue; lines 45-46.
QueueEmpty ==
    /\ call.pc = "while"
    /\ call.search.queue = {}
    /\ call' = [ call EXCEPT !.pc = "trace", !.node = call.end, !.path = <<>> ]
    /\ UNCHANGED << mode, graph, viewVars, obstacles, blocked_edges, editVars >>

\* The call returns (path, cost) to its caller.
Returns(path, cost) ==
    /\ call' = [ call EXCEPT !.pc = "done" ]
    /\ start' = call.start
    /\ exits' = << call.end >>
    /\ paths' = << path >>
    /\ times' = << cost >>
    /\ UNCHANGED << mode, graph, buttons, obstacles, blocked_edges, editVars >>

\* Lines 47-50: one turn of the walk back.
TraceStep ==
    /\ call.pc = "trace"
    /\ call.node # call.start
    /\ LET prev == Get(call.search.visited, call.node)
       IN  IF prev = None
           THEN Returns(<<>>, 0)
           ELSE /\ call' = [ call EXCEPT !.path = Append(@, call.node),
                                         !.node = prev ]
                /\ UNCHANGED << mode, graph, viewVars, obstacles, blocked_edges,
                                editVars >>

\* Line 51.
Return ==
    /\ call.pc = "trace"
    /\ call.node = call.start
    /\ Returns(<< call.start >> \o Reverse(call.path),
               IF call.end \in DOMAIN call.search.costs
               THEN call.search.costs[call.end] ELSE 0)

StepNext ==
    \/ \E s \in Range(PathNodes), e \in Range(PathNodes) : Call(s, e)
    \/ Pop
    \/ QueueEmpty
    \/ TraceStep
    \/ Return

StepSpec == StepInit /\ [][StepNext]_vars

\* The initial states in which the edges away from the first node weigh 1.
FairInit ==
    /\ StepInit
    /\ \A e \in EdgeSet(graph) : PathNodes[1] \in e \/ graph.weight[e] = 1

\* The scheduler runs the call on: every step that can be taken is taken.
StepFairSpec == FairInit /\ [][StepNext]_vars /\ WF_vars(StepNext)

\* The caller calls find_path again and again, on graphs whose edges at the
\* first node weigh 3 and the others 1, without or with an obstacle.
RerunInit ==
    /\ mode = "rerun"
    /\ \E present \in SUBSET PathPairs :
          graph = PathGraph(present,
                            [ e \in present |-> IF PathNodes[1] \in e THEN 3 ELSE 1 ],
                            [ n \in Range(PathNodes) |-> 0 ])
    /\ obstacles \in { {}, { PathNodes[2] } }
    /\ blocked_edges = {}
    /\ start = None
    /\ exits = <<>>
    /\ buttons = <<>>
    /\ paths = <<>>
    /\ times = <<>>
    /\ count = 0
    /\ selected = None
    /\ drawing = None
    /\ call = NoCall

RerunSpec == RerunInit /\ [][StepNext]_vars

\* ================================================================= claims
\* A step of edit() that removes the node k (key D).
Removes(k) ==
    /\ mode = "edit"
    /\ k \in NodeSet(graph)
    /\ k \notin NodeSet(graph')

\* Some node was removed before: a regular node N<i> is missing although a
\* later one, or the counter, shows that it was created.
SomeNodeRemoved ==
    \E n \in NodeSet(graph) :
        /\ graph.label[n] = <<"N", 2>>
        /\ \A m \in NodeSet(graph) : graph.label[m] # <<"N", 1>>

\* The step from u to v is along an edge of g, enters no obstacle and uses
\* no edge that is blocked in either orientation.
AdmissibleStep(g, obst, blocked, u, v) ==
    /\ {u, v} \in EdgeSet(g)
    /\ v \notin obst
    /\ << u, v >> \notin blocked
    /\ << v, u >> \notin blocked

\* Every admissible simple path that continues the simple path p to e, by
\* exhaustive enumeration.
RECURSIVE Continuations(_, _, _, _, _)
Continuations(g, obst, blocked, p, e) ==
    IF p[Len(p)] = e THEN {p}
    ELSE UNION { Continuations(g, obst, blocked, Append(p, v), e) :
                   v \in { n \in NodeSet(g) \ Range(p) :
                             AdmissibleStep(g, obst, blocked, p[Len(p)], n) } }

\* The admissible simple paths from s to e.
AdmissiblePaths(g, obst, blocked, s, e) ==
    Continuations(g, obst, blocked, << s >>, e)

\* Sum of the edge weights and of the delays of the nodes arrived at.
RECURSIVE PathCost(_, _)
PathCost(g, p) ==
    IF Len(p) <= 1 THEN 0
    ELSE g.weight[{p[1], p[2]}] + g.delay[p[2]] + PathCost(g, Tail(p))

\* The call find_path(graph, start, exits[1]) has returned.
Called == mode = "call" /\ start # None

Routable == AdmissiblePaths(graph, obstacles, blocked_edges, start, exits[1])

\* C1: when end can be reached from start by an admissible path, the cost
\* returned is the least cost of an admissible simple path.
C1_MinimalCost ==
    Called =>
        LET routes == Routable
        IN  routes # {} =>
              /\ \E p \in routes : PathCost(graph, p) = times[1]
              /\ \A p \in routes : PathCost(graph, p) >= times[1]

\* C1 witness: the cheapest route has three edges and passes a delayed node,
\* while a shorter admissible route exists and an edge is blocked.
C1_Witness ==
    /\ Called
    /\ Len(paths[1]) = 4
    /\ blocked_edges # {}
    /\ \E i \in 2..4 : graph.delay[paths[1][i]] > 0
    /\ \E p \in Routable : Len(p) < 4

\* C2: the empty path is returned exactly when no admissible path exists,
\* which needs end # start, and it comes with the cost 0.
C2_EmptyIffUnreachable ==
    Called =>
        LET routes == Routable
        IN  /\ paths[1] = <<>> <=> (exits[1] # start /\ routes = {})
            /\ paths[1] = <<>> => times[1] = 0
            /\ routes # {} => paths[1] # <<>>

\* C2 witness: end has an edge, and every way to it is cut by the obstacle.
C2_Witness ==
    /\ Called
    /\ paths[1] = <<>>
    /\ obstacles # {}
    /\ exits[1] \notin obstacles
    /\ neighbors(graph, exits[1]) # {}
    /\ neighbors(graph, start) # {}

\* C9: find_path(graph, s, s) returns the path [s] with cost 0.
C9_StartIsEnd ==
    (Called /\ exits[1] = start) => (paths[1] = << start >> /\ times[1] = 0)

\* C9 witness: s is an obstacle with neighbours.
C9_Witness ==
    /\ Called
    /\ exits[1] = start
    /\ start \in obstacles
    /\ neighbors(graph, start) # {}

\* C10: when end is an obstacle other than start, the result is the empty
\* path with cost 0.
C10_ObstacleEnd ==
    (Called /\ exits[1] \in obstacles /\ exits[1] # start) =>
        (paths[1] = <<>> /\ times[1] = 0)

\* C10 witness: the obstacle end is joined to start by an edge.
C10_Witness ==
    /\ Called
    /\ exits[1] \in obstacles
    /\ exits[1] # start
    /\ exits[1] \in neighbors(graph, start)

\* C3: in view mode, once set up, the stored paths and times are for every
\* exit the result of find_path on the current graph, delays, obstacles,
\* blocked edges and start node, and the exits are the graph's exit nodes.
C3_NoStaleRoute ==
    InView =>
        /\ exits = SelectSeq(graph.nodes, LAMBDA n : IsExit(graph, n))
        /\ Len(paths) = Len(exits)
        /\ Len(times) = Len(exits)
        /\ \A i \in 1..Len(exits) :
               << paths[i], times[i] >> = find_path(graph, start, exits[i])

\* C3 witness: the start was changed, an edge is blocked, a node has a
\* delay, and a route of three nodes is on display.
C3_Witness ==
    /\ InView
    /\ start # graph.nodes[1]
    /\ blocked_edges # {}
    /\ \E n \in NodeSet(graph) : graph.delay[n] > 0
    /\ \E i \in 1..Len(paths) : Len(paths[i]) = 3

\* C4: after a node k is removed, k is not in the obstacle set.
C4_RemovedNotObstacle ==
    [][ \A k \in Spots : Removes(k) => k \notin obstacles' ]_vars

\* C5: removing k removes k and exactly the edges incident to k; the other
\* edges keep their weights, the other nodes their order, labels and delays.
C5_RemoveNodeFrame ==
    [][ \A k \in Spots : Removes(k) =>
          /\ graph'.nodes = SelectSeq(graph.nodes, LAMBDA n : n # k)
          /\ \A e \in EdgeSet(graph') : k \notin e
          /\ EdgeSet(graph') = { e \in EdgeSet(graph) : k \notin e }
          /\ \A e \in EdgeSet(graph') : graph'.weight[e] = graph.weight[e]
          /\ DOMAIN graph'.label = NodeSet(graph) \ {k}
          /\ DOMAIN graph'.delay = NodeSet(graph) \ {k}
          /\ \A n \in NodeSet(graph) \ {k} :
                 /\ graph'.label[n] = graph.label[n]
                 /\ graph'.delay[n] = graph.delay[n] ]_vars

\* C5 witness: in the editor a node has been removed and an edge is left.
C5_Witness ==
    /\ mode = "edit"
    /\ SomeNodeRemoved
    /\ EdgeSet(graph) # {}

\* C6: every entry of the blocked-edge set joins two nodes of the graph,
\* and the set is empty whenever nodes can be removed or created.
C6_BlockedEdgesLive ==
    /\ mode = "edit" => blocked_edges = {}
    /\ \A p \in blocked_edges : p[1] \in NodeSet(graph) /\ p[2] \in NodeSet(graph)

\* C6 witness: an edge is blocked in a graph from which a node was removed.
C6_Witness ==
    /\ InView
    /\ SomeNodeRemoved
    /\ blocked_edges # {}

\* The unordered pairs that are blocked.
BlockedPairs(blocked) == { {p[1], p[2]} : p \in blocked }

C8_OneOrientation ==
    \A p \in blocked_edges : << p[2], p[1] >> \notin blocked_edges

\* C8 witness: two edges are blocked at once.
C8_Witness ==
    /\ InView
    /\ Cardinality(blocked_edges) = 2

\* C11: the result of find_path is the same with the start node in the
\* obstacle set as with the start node taken out of it, and it is the result
\* the call returned.
C11_StartObstacleIgnored ==
    Called =>
        LET with    == find_path_in(graph, obstacles \cup {start}, blocked_edges,
                                    start, exits[1])
            without == find_path_in(graph, obstacles \ {start}, blocked_edges,
                                    start, exits[1])
        IN  /\ with = without
            /\ with = << paths[1], times[1] >>

\* C11 witness: the start is an obstacle, and a route of two edges or more
\* leaves it.
C11_Witness ==
    /\ Called
    /\ start \in obstacles
    /\ Len(paths[1]) >= 3
    /\ times[1] > 0

\* The graph exists: main holds one from the choice on the select screen on.
HasGraph == mode \in {"edit", "view"}

\* Every edge weight is a positive integer, every delay a natural number.
WeightsAndDelaysInRange ==
    HasGraph =>
        /\ \A e \in EdgeSet(graph) : graph.weight[e] \in Nat \ {0}
        /\ \A n \in NodeSet(graph) : graph.delay[n] \in Nat

\* A step in view mode changes a delay by one second, up or down, and never
\* below zero.
DelayStep ==
    InView /\ mode' = "view" =>
        \A n \in NodeSet(graph) :
            /\ graph'.delay[n] \in
                   { graph.delay[n] + 1,
                     IF graph.delay[n] - 1 > 0 THEN graph.delay[n] - 1 ELSE 0,
                     graph.delay[n] }
            /\ graph'.delay[n] >= 0

\* C12: in every reachable state the edge weights are positive integers and
\* the node delays are natural numbers, and a delay changes to
\* max(0, current + delta) with delta 1 or -1, so that a decrease at 0
\* leaves 0.
C12_WeightsPositiveDelaysFloored ==
    []WeightsAndDelaysInRange /\ [][DelayStep]_vars

\* C12 witness: a graph drawn in the editor has an edge of weight 3, a node
\* whose delay was raised twice and a node whose delay is 0.
C12_Witness ==
    /\ InView
    /\ \E n \in NodeSet(graph) : graph.label[n][1] = "N" /\ graph.delay[n] >= 2
    /\ \E n \in NodeSet(graph) : graph.delay[n] = 0
    /\ \E e \in EdgeSet(graph) : graph.weight[e] = 3

\* C13: every edge joins two distinct nodes that are in the graph, and a
\* pending edge starts at a node that is in the graph, so that completing
\* it cannot bring in an edge to a deleted node.
C13_EdgesJoinLiveNodes ==
    HasGraph =>
        /\ \A e \in EdgeSet(graph) :
               /\ Cardinality(e) = 2
               /\ e \subseteq NodeSet(graph)
        /\ drawing # None => drawing[1] \in NodeSet(graph)
        /\ DOMAIN graph.label = NodeSet(graph)
        /\ DOMAIN graph.delay = NodeSet(graph)

\* C13 witness: in the editor a node was deleted, an edge is left and a new
\* edge is pending.
C13_Witness ==
    /\ mode = "edit"
    /\ SomeNodeRemoved
    /\ EdgeSet(graph) # {}
    /\ drawing # None

\* C14: add_edge(u, v, w) leaves one edge between u and v, of weight w and
\* seen from both ends, whichever way round an earlier call named the pair;
\* no other edge changes, the edge count grows by one exactly when the pair
\* had no edge, and the nodes with their attributes stay as they are.
C14_OneEdgePerPair ==
    [][ mode = "add_edge" =>
          LET u == start'
              v == exits'[1]
              w == times'[1]
          IN  /\ EdgeSet(graph') = EdgeSet(graph) \cup { {u, v} }
              /\ graph'.weight[{u, v}] = w
              /\ graph'.weight[{v, u}] = w
              /\ u \in neighbors(graph', v) /\ v \in neighbors(graph', u)
              /\ \A e \in EdgeSet(graph) \ { {u, v} } :
                     graph'.weight[e] = graph.weight[e]
              /\ Cardinality(EdgeSet(graph')) =
                     Cardinality(EdgeSet(graph))
                        + (IF {u, v} \in EdgeSet(graph) THEN 0 ELSE 1)
              /\ graph'.nodes = graph.nodes
              /\ graph'.label = graph.label
              /\ graph'.delay = graph.delay ]_vars

\* C14 witness: after two calls there is one edge, so the second call met
\* the edge of the first; it gave the weight 3 and named the pair against
\* the order of the nodes.
C14_Witness ==
    /\ mode = "add_edge"
    /\ count = 2
    /\ Cardinality(EdgeSet(graph)) = 1
    /\ times[1] = 3
    /\ Oriented(graph, {start, exits[1]}) = << exits[1], start >>

C16_RoutesAligned ==
    InView =>
        /\ Len(paths) = Len(exits)
        /\ Len(times) = Len(exits)
        /\ \A i \in 1..Len(exits) :
               LET alone == Routes(graph, obstacles, blocked_edges, start,
                                   << exits[i] >>)
               IN  /\ Len(alone[1]) = 1 /\ Len(alone[2]) = 1
                   /\ paths[i] = alone[1][1]
                   /\ times[i] = alone[2][1]

\* C16 witness: three exits with three different costs, after a change of
\* the start node and with an obstacle in place.
C16_Witness ==
    /\ InView
    /\ Len(exits) = 3
    /\ start # graph.nodes[1]
    /\ obstacles # {}
    /\ times[1] # times[2] /\ times[2] # times[3] /\ times[1] # times[3]
    /\ \A i \in 1..3 : paths[i] # <<>> /\ paths[i][Len(paths[i])] = exits[i]

\* A call of find_path is being followed or has returned.
InCall == call.pc \in {"while", "trace", "done"}

\* C17: no step of find_path changes the graph, the obstacle set or the
\* blocked-edge set; what a call returns is determined by the graph, the two
\* sets, start and end, whatever the calls before it were; and a call with
\* the arguments of the call before returns what that call returned.
C17_PureQuery ==
    [][ mode = "rerun" =>
          /\ graph' = graph
          /\ obstacles' = obstacles
          /\ blocked_edges' = blocked_edges
          /\ (call.pc # "done" /\ call'.pc = "done") =>
                 /\ << paths'[1], times'[1] >> =
                        find_path_in(graph, obstacles, blocked_edges,
                                     start', exits'[1])
                 /\ (start' = start /\ exits' = exits) =>
                        (paths' = paths /\ times' = times) ]_vars

\* C17 witness: after a call that found a route of two edges or more, a
\* call with the same arguments is walking back from end.
C17_Witness ==
    /\ mode = "rerun"
    /\ start # None
    /\ Len(paths[1]) >= 3
    /\ call.pc = "trace"
    /\ call.start = start
    /\ call.end = exits[1]
    /\ call.path # <<>>

\* Every predecessor link leads to a node of strictly smaller cost, start
\* has no predecessor and every other node with a cost has one: the links
\* form no cycle, and the walk back along them ends at start.
LinksLeadToStart ==
    (InCall /\ mode = "run") =>
        LET costs   == call.search.costs
            visited == call.search.visited
        IN  /\ call.start \notin DOMAIN visited
            /\ DOMAIN costs = DOMAIN visited \cup { call.start }
            /\ \A n \in DOMAIN visited :
                   /\ visited[n] \in DOMAIN costs
                   /\ costs[visited[n]] < costs[n]

\* C18: every call of find_path returns, and the predecessor links lead to
\* start all the time.
C18_Terminates ==
    <>(call.pc = "done") /\ []LinksLeadToStart

\* C18 witness: a call has returned the empty path on a graph with a
\* triangle, where end has an edge.
C18_Witness ==
    /\ mode = "run"
    /\ call.pc = "done"
    /\ paths[1] = <<>>
    /\ neighbors(graph, call.end) # {}
    /\ \E a \in NodeSet(graph), b \in NodeSet(graph), c \in NodeSet(graph) :
           {a, b} \in EdgeSet(graph) /\ {b, c} \in EdgeSet(graph)
              /\ {a, c} \in EdgeSet(graph) /\ call.start \in {a, b, c}

\* C19: a path that find_path returns starts at start, ends at end, passes
\* no node twice, takes only steps along edges that are not blocked into
\* nodes that are no obstacles, and costs what find_path returns with it.
C19_WellFormedPath ==
    (Called /\ paths[1] # <<>>) =>
        LET p == paths[1]
        IN  /\ p[1] = start
            /\ p[Len(p)] = exits[1]
            /\ Cardinality(Range(p)) = Len(p)
            /\ \A i \in 1..(Len(p) - 1) :
                   AdmissibleStep(graph, obstacles, blocked_edges, p[i], p[i + 1])
            /\ times[1] = PathCost(graph, p)

\* C19 witness: a route through all four nodes that leaves an obstacle
\* start and passes a delayed node.
C19_Witness ==
    /\ Called
    /\ Len(paths[1]) = 4
    /\ start \in obstacles
    /\ \E i \in 2..4 : graph.delay[paths[1][i]] > 0

\* The least cost of an admissible path from s to n.
MinCost(g, obst, blocked, s, n) ==
    LET costs == { PathCost(g, p) : p \in AdmissiblePaths(g, obst, blocked, s, n) }
    IN  CHOOSE c \in costs : \A d \in costs : c <= d

\* Node n has been popped: it has a cost, and the entry with that cost has
\* left the queue.
Popped(n) ==
    /\ n \in DOMAIN call.search.costs
    /\ << call.search.costs[n], n >> \notin call.search.queue

\* The entry that the next pop takes is the first one for its node.
FirstPop ==
    /\ call.pc = "while"
    /\ call.search.queue # {}
    /\ LET top == HeapMin(call.search.queue)
       IN  top[1] = call.search.costs[top[2]]

\* The entry that the next pop takes is for a node popped before.
StalePop ==
    /\ call.pc = "while"
    /\ call.search.queue # {}
    /\ LET top == HeapMin(call.search.queue)
       IN  top[1] # call.search.costs[top[2]]

\* At its first pop a node has its least admissible cost, a stale entry is
\* for a node popped before, and a route returned costs the least.
CostFinalAtPop ==
    mode = "run" =>
        /\ FirstPop =>
               LET n == HeapMin(call.search.queue)[2]
               IN  /\ AdmissiblePaths(graph, obstacles, blocked_edges,
                                      call.start, n) # {}
                   /\ call.search.costs[n] =
                          MinCost(graph, obstacles, blocked_edges, call.start, n)
        /\ StalePop => Popped(HeapMin(call.search.queue)[2])
        /\ (call.pc = "done" /\ paths[1] # <<>>) =>
               /\ Popped(call.end)
               /\ times[1] = call.search.costs[call.end]
               /\ times[1] =
                      MinCost(graph, obstacles, blocked_edges, call.start, call.end)

\* While the call goes on, a popped node stays popped and keeps its cost and
\* its predecessor, and the pop of a stale entry changes no cost and no
\* predecessor.
PoppedIsFinal ==
    (mode = "run" /\ InCall /\ call'.pc # "idle") =>
        /\ \A n \in NodeSet(graph) :
               Popped(n) =>
                   /\ n \in DOMAIN call'.search.costs
                   /\ call'.search.costs[n] = call.search.costs[n]
                   /\ Get(call'.search.visited, n) = Get(call.search.visited, n)
                   /\ << call'.search.costs[n], n >> \notin call'.search.queue
        /\ StalePop =>
               /\ call'.search.costs = call.search.costs
               /\ call'.search.visited = call.search.visited

\* C20: the cost of a node is final when the node is popped for the first
\* time, and it is the least admissible cost from start; the pops of stale
\* entries change nothing; the cost of end at its pop is the cost returned.
C20_FinalAtFirstPop ==
    []CostFinalAtPop /\ [][PoppedIsFinal]_vars

\* C20 witness: the next pop takes a stale entry, of a node that was popped
\* with a smaller cost, and end has not been popped.
C20_Witness ==
    /\ mode = "run"
    /\ StalePop
    /\ ~Popped(call.end)
    /\ call.end \in DOMAIN call.search.costs

\* The exit-labelled nodes of g, in node order.
ExitNodes(g) == SelectSeq(g.nodes, LAMBDA n : IsExit(g, n))

\* C21: a step taken in view mode leads neither to the editor nor to the
\* select screen, and while the program stays in view mode it leaves the
\* nodes, the edges, the weights, the labels and the exit list as they are;
\* the step that sets view mode up leaves the graph as it is and makes the
\* exit list the list of the exit-labelled nodes; so the exit list is that
\* list after every step in view mode.
C21_ViewKeepsTopology ==
    [][ /\ InView =>
             /\ mode' \notin {"edit", "select"}
             /\ mode' = "view" =>
                    /\ graph'.nodes = graph.nodes
                    /\ graph'.weight = graph.weight
                    /\ graph'.label = graph.label
                    /\ exits' = exits
                    /\ exits' = ExitNodes(graph')
        /\ (mode = "view" /\ start = None /\ mode' = "view" /\ start' # None) =>
             /\ graph' = graph
             /\ exits' = ExitNodes(graph) ]_vars

\* C21 witness: in view mode the exit E1 of a drawn graph is an obstacle and
\* has a delay, and the start node was changed.
C21_Witness ==
    /\ InView
    /\ Len(exits) = 1
    /\ graph.label[exits[1]] = <<"E", 1>>
    /\ exits[1] \in obstacles
    /\ graph.delay[exits[1]] > 0
    /\ start # graph.nodes[1]

\* C22: entering view mode never fails for want of a node, whatever graph
\* was handed over, and in view mode the start node is a key of the graph.
C22_StartIsGraphKey ==
    /\ mode # "error"
    /\ InView => start \in NodeSet(graph)

====
